---- MODULE Spec2Model ----
(***************************************************************************)
(* The Settings registry of nix/libstore/globals.cc: an untyped            *)
(* name -> string map (settings), the log of explicit writes (overrides),  *)
(* the typed fields that update() derives from the map, and pack().        *)
(*                                                                         *)
(* A C++ string is a sequence of one-character strings, so that find(),    *)
(* tokenizing, integer parsing and the name=value format are computed      *)
(* character by character.                                                 *)
(***************************************************************************)
EXTENDS Integers, Sequences, FiniteSets, TLC

VARIABLES
    settings,      \* Settings::settings, the backing store (SettingsMap)
    overrides,     \* Settings::overrides
    fields,        \* the typed members of Settings, by member name
    paths,         \* the directory members set by processEnvironment()
    environ,       \* the process environment read through getEnv()
    last,          \* the last call: operation, arguments, error, result
    setHistory     \* history: name -> value of the most recent set(name, value)

vars == <<settings, overrides, fields, paths, environ, last, setHistory>>

-----------------------------------------------------------------------------
(* Characters and strings *)

LF == "\n"

\* The characters the model uses, in increasing order of their char code.
Alphabet ==
    <<LF, " ", "-", ".", "/", "0", "1", "2", "3", "4", "5", "6", "7", "8", "9",
      ":", "=", "T", "a", "b", "c", "d", "e", "f", "g", "h", "i", "j", "k", "l",
      "m", "n", "o", "p", "q", "r", "s", "t", "u", "v", "w", "x", "y", "z">>

CharCode(c) == CHOOSE i \in 1..Len(Alphabet) : Alphabet[i] = c

\* std::string::operator< : lexicographic on the character codes.
RECURSIVE StringLess(_, _)
StringLess(a, b) ==
    IF b = <<>> THEN FALSE
    ELSE IF a = <<>> THEN TRUE
    ELSE IF Head(a) = Head(b) THEN StringLess(Tail(a), Tail(b))
    ELSE CharCode(Head(a)) < CharCode(Head(b))

\* s.find(c) != string::npos
Contains(s, c) == \E i \in 1..Len(s) : s[i] = c

EmptyString == <<>>
STR_true == <<"t", "r", "u", "e">>
STR_false == <<"f", "a", "l", "s", "e">>
STR_default == <<"d", "e", "f", "a", "u", "l", "t">>

-----------------------------------------------------------------------------
(* Collaborators declared in util.hh *)

IntMax == 2147483647
IntMin == -IntMax - 1

IsDigit(c) == c \in {"0", "1", "2", "3", "4", "5", "6", "7", "8", "9"}
DigitVal(c) == CharCode(c) - CharCode("0")
DigitChar(d) == Alphabet[CharCode("0") + d]

\* Base-10 digits of the whole string, accumulated as a negative number so
\* that the most negative value is reached without overflow; limit is the
\* least value the accumulator may take.
RECURSIVE ParseDigits(_, _, _)
ParseDigits(s, acc, limit) ==
    IF s = <<>> THEN [ok |-> TRUE, n |-> acc]
    ELSE IF ~IsDigit(Head(s)) THEN [ok |-> FALSE, n |-> 0]
    ELSE LET d == DigitVal(Head(s))
         IN  IF acc < (limit + d + 9) \div 10
             THEN [ok |-> FALSE, n |-> 0]
             ELSE ParseDigits(Tail(s), acc * 10 - d, limit)

\* The value of s as a base-10 signed integer of the int width, read from
\* the full string: an optional '-' and at least one digit, nothing else.
ParseInt(s) ==
    IF s = <<>> THEN [ok |-> FALSE, n |-> 0]
    ELSE IF Head(s) = "-"
    THEN IF Tail(s) = <<>> THEN [ok |-> FALSE, n |-> 0]
         ELSE ParseDigits(Tail(s), 0, IntMin)
    ELSE LET r == ParseDigits(s, 0, -IntMax)
         IN  [ok |-> r.ok, n |-> -r.n]

\* string2Int(s, n): n is passed by reference.  On success n holds the
\* parsed value.  On failure the function returns false; whether n is left
\* as it was or overwritten (a failed stream extraction stores 0) is the
\* callee's choice, so both outcomes are admitted.
string2Int(s, n) ==
    LET r == ParseInt(s)
    IN  IF r.ok THEN {[ok |-> TRUE, n |-> r.n]}
        ELSE {[ok |-> FALSE, n |-> v] : v \in {n, 0}}

\* Default separators of tokenizeString.
Whitespace == {" ", LF}

\* tokenizeString<Strings>(s, separators): the maximal runs of
\* non-separator characters of s, in order; no empty token.
RECURSIVE tokenizeString(_, _)
tokenizeString(s, separators) ==
    LET starts == {i \in 1..Len(s) : s[i] \notin separators}
    IN  IF starts = {} THEN <<>>
        ELSE LET pos == CHOOSE i \in starts : \A j \in starts : i <= j
                 ends == {i \in pos + 1..Len(s) : s[i] \in separators}
                 end == IF ends = {} THEN Len(s) + 1
                        ELSE CHOOSE i \in ends : \A j \in ends : i <= j
             IN  <<SubSeq(s, pos, end - 1)>>
                 \o tokenizeString(SubSeq(s, end, Len(s)), separators)

\* getEnv(key, def): the variable's value, def when it is not set.
getEnv(key, def) == IF key \in DOMAIN environ THEN environ[key] ELSE def

\* The components of an absolute path with "." dropped and ".." resolved.
RECURSIVE CanonComponents(_, _)
CanonComponents(comps, acc) ==
    IF comps = <<>> THEN acc
    ELSE IF Head(comps) = <<".">> THEN CanonComponents(Tail(comps), acc)
    ELSE IF Head(comps) = <<".", ".">>
    THEN CanonComponents(Tail(comps),
                         IF acc = <<>> THEN acc ELSE SubSeq(acc, 1, Len(acc) - 1))
    ELSE CanonComponents(Tail(comps), Append(acc, Head(comps)))

RECURSIVE JoinPath(_)
JoinPath(comps) ==
    IF comps = <<>> THEN <<>> ELSE <<"/">> \o Head(comps) \o JoinPath(Tail(comps))

\* canonPath(path): the path without repeated or trailing slashes.
canonPath(path) ==
    LET comps == CanonComponents(tokenizeString(path, {"/"}), <<>>)
    IN  IF comps = <<>> THEN <<"/">> ELSE JoinPath(comps)

\* str(n): the decimal representation of n; NegDigits takes n <= 0.
RECURSIVE NegDigits(_)
NegDigits(m) ==
    IF m = 0 THEN <<>>
    ELSE LET d == (10 - (m % 10)) % 10
         IN  Append(NegDigits((m + d) \div 10), DigitChar(d))

IntToString(n) ==
    IF n = 0 THEN <<"0">>
    ELSE IF n < 0 THEN <<"-">> \o NegDigits(n)
    ELSE NegDigits(-n)

-----------------------------------------------------------------------------
(* The keys update() reads, as written in the source *)

KEY_build_fallback ==
    <<"b", "u", "i", "l", "d", "-", "f", "a", "l", "l", "b", "a", "c",
      "k">>
KEY_build_max_jobs ==
    <<"b", "u", "i", "l", "d", "-", "m", "a", "x", "-", "j", "o", "b",
      "s">>
KEY_build_cores ==
    <<"b", "u", "i", "l", "d", "-", "c", "o", "r", "e", "s">>
KEY_system ==
    <<"s", "y", "s", "t", "e", "m">>
KEY_build_max_silent_time ==
    <<"b", "u", "i", "l", "d", "-", "m", "a", "x", "-", "s", "i", "l", "e",
      "n", "t", "-", "t", "i", "m", "e">>
KEY_build_timeout ==
    <<"b", "u", "i", "l", "d", "-", "t", "i", "m", "e", "o", "u", "t">>
KEY_gc_reserved_space ==
    <<"g", "c", "-", "r", "e", "s", "e", "r", "v", "e", "d", "-", "s", "p",
      "a", "c", "e">>
KEY_fsync_metadata ==
    <<"f", "s", "y", "n", "c", "-", "m", "e", "t", "a", "d", "a", "t",
      "a">>
KEY_use_sqlite_wal ==
    <<"u", "s", "e", "-", "s", "q", "l", "i", "t", "e", "-", "w", "a",
      "l">>
KEY_sync_before_registering ==
    <<"s", "y", "n", "c", "-", "b", "e", "f", "o", "r", "e", "-", "r", "e",
      "g", "i", "s", "t", "e", "r", "i", "n", "g">>
KEY_build_use_substitutes ==
    <<"b", "u", "i", "l", "d", "-", "u", "s", "e", "-", "s", "u", "b", "s",
      "t", "i", "t", "u", "t", "e", "s">>
KEY_build_users_group ==
    <<"b", "u", "i", "l", "d", "-", "u", "s", "e", "r", "s", "-", "g", "r",
      "o", "u", "p">>
KEY_build_use_chroot ==
    <<"b", "u", "i", "l", "d", "-", "u", "s", "e", "-", "c", "h", "r", "o",
      "o", "t">>
KEY_build_impersonate_linux_26 ==
    <<"b", "u", "i", "l", "d", "-", "i", "m", "p", "e", "r", "s", "o", "n",
      "a", "t", "e", "-", "l", "i", "n", "u", "x", "-", "2", "6">>
KEY_build_keep_log ==
    <<"b", "u", "i", "l", "d", "-", "k", "e", "e", "p", "-", "l", "o",
      "g">>
KEY_build_max_log_size ==
    <<"b", "u", "i", "l", "d", "-", "m", "a", "x", "-", "l", "o", "g", "-",
      "s", "i", "z", "e">>
KEY_build_cache_failure ==
    <<"b", "u", "i", "l", "d", "-", "c", "a", "c", "h", "e", "-", "f", "a",
      "i", "l", "u", "r", "e">>
KEY_build_poll_interval ==
    <<"b", "u", "i", "l", "d", "-", "p", "o", "l", "l", "-", "i", "n", "t",
      "e", "r", "v", "a", "l">>
KEY_gc_check_reachability ==
    <<"g", "c", "-", "c", "h", "e", "c", "k", "-", "r", "e", "a", "c", "h",
      "a", "b", "i", "l", "i", "t", "y">>
KEY_gc_keep_outputs ==
    <<"g", "c", "-", "k", "e", "e", "p", "-", "o", "u", "t", "p", "u", "t",
      "s">>
KEY_gc_keep_derivations ==
    <<"g", "c", "-", "k", "e", "e", "p", "-", "d", "e", "r", "i", "v", "a",
      "t", "i", "o", "n", "s">>
KEY_auto_optimise_store ==
    <<"a", "u", "t", "o", "-", "o", "p", "t", "i", "m", "i", "s", "e", "-",
      "s", "t", "o", "r", "e">>
KEY_env_keep_derivations ==
    <<"e", "n", "v", "-", "k", "e", "e", "p", "-", "d", "e", "r", "i", "v",
      "a", "t", "i", "o", "n", "s">>

\* The (member, key, overload of _get) triples of update(), in call order.
FieldList ==
    <<[field |-> "tryFallback", key |-> KEY_build_fallback, type |-> "bool"],
      [field |-> "maxBuildJobs", key |-> KEY_build_max_jobs, type |-> "int"],
      [field |-> "buildCores", key |-> KEY_build_cores, type |-> "int"],
      [field |-> "thisSystem", key |-> KEY_system, type |-> "string"],
      [field |-> "maxSilentTime", key |-> KEY_build_max_silent_time, type |-> "int"],
      [field |-> "buildTimeout", key |-> KEY_build_timeout, type |-> "int"],
      [field |-> "reservedSize", key |-> KEY_gc_reserved_space, type |-> "int"],
      [field |-> "fsyncMetadata", key |-> KEY_fsync_metadata, type |-> "bool"],
      [field |-> "useSQLiteWAL", key |-> KEY_use_sqlite_wal, type |-> "bool"],
      [field |-> "syncBeforeRegistering", key |-> KEY_sync_before_registering, type |-> "bool"],
      [field |-> "useSubstitutes", key |-> KEY_build_use_substitutes, type |-> "bool"],
      [field |-> "buildUsersGroup", key |-> KEY_build_users_group, type |-> "string"],
      [field |-> "useChroot", key |-> KEY_build_use_chroot, type |-> "bool"],
      [field |-> "impersonateLinux26", key |-> KEY_build_impersonate_linux_26, type |-> "bool"],
      [field |-> "keepLog", key |-> KEY_build_keep_log, type |-> "bool"],
      [field |-> "maxLogSize", key |-> KEY_build_max_log_size, type |-> "int"],
      [field |-> "cacheFailure", key |-> KEY_build_cache_failure, type |-> "bool"],
      [field |-> "pollInterval", key |-> KEY_build_poll_interval, type |-> "int"],
      [field |-> "checkRootReachability", key |-> KEY_gc_check_reachability, type |-> "bool"],
      [field |-> "gcKeepOutputs", key |-> KEY_gc_keep_outputs, type |-> "bool"],
      [field |-> "gcKeepDerivations", key |-> KEY_gc_keep_derivations, type |-> "bool"],
      [field |-> "autoOptimiseStore", key |-> KEY_auto_optimise_store, type |-> "bool"],
      [field |-> "envKeepDerivations", key |-> KEY_env_keep_derivations, type |-> "bool"]>>

SUBSTITUTER_manifests ==
    <<"/", "n", "i", "x", "/", "s", "u", "b", "s", "t", "i", "t", "u", "t",
      "e", "r", "s", "/", "d", "o", "w", "n", "l", "o", "a", "d", "-", "u",
      "s", "i", "n", "g", "-", "m", "a", "n", "i", "f", "e", "s", "t", "s",
      ".", "p", "l">>
SUBSTITUTER_binary_cache ==
    <<"/", "n", "i", "x", "/", "s", "u", "b", "s", "t", "i", "t", "u", "t",
      "e", "r", "s", "/", "d", "o", "w", "n", "l", "o", "a", "d", "-", "f",
      "r", "o", "m", "-", "b", "i", "n", "a", "r", "y", "-", "c", "a", "c",
      "h", "e", ".", "p", "l">>
DEFAULT_SOCKET_PATH ==
    <<"/", "d", "a", "e", "m", "o", "n", "-", "s", "o", "c", "k", "e", "t",
      "/", "s", "o", "c", "k", "e", "t">>

-----------------------------------------------------------------------------
(* Configure-time values (config.h); each is an absolute directory *)

SYSTEM == <<"x", "-", "l", "i", "n", "u", "x">>
NIX_STORE_DIR == <<"/", "s">>
NIX_DATA_DIR == <<"/", "d">>
NIX_LOG_DIR == <<"/", "l", "o", "g">>
NIX_STATE_DIR == <<"/", "v">>
GUIX_CONFIGURATION_DIRECTORY == <<"/", "e", "t", "c">>
NIX_LIBEXEC_DIR == <<"/", "l">>
NIX_BIN_DIR == <<"/", "b">>
HAVE_BZLIB_H == TRUE

-----------------------------------------------------------------------------
(* std::map<string, string> *)

EmptyMap == [k \in {} |-> EmptyString]

\* m[k] = v
MapPut(m, k, v) == [x \in DOMAIN m \cup {k} |-> IF x = k THEN v ELSE m[x]]

\* The keys of a map in the order its iterator visits them.
RECURSIVE SortedKeys(_)
SortedKeys(S) ==
    IF S = {} THEN <<>>
    ELSE LET m == CHOOSE k \in S : \A j \in S \ {k} : StringLess(k, j)
         IN  <<m>> \o SortedKeys(S \ {m})

-----------------------------------------------------------------------------
(* Construction *)

\* Settings::Settings(): the members the constructor assigns; the string and
\* list members it does not mention are default-constructed (empty).
SettingsConstructor ==
    [keepFailed |-> FALSE,
     keepGoing |-> FALSE,
     tryFallback |-> FALSE,
     buildVerbosity |-> "lvlError",
     maxBuildJobs |-> 1,
     buildCores |-> 1,
     readOnlyMode |-> FALSE,
     thisSystem |-> SYSTEM,
     maxSilentTime |-> 0,
     buildTimeout |-> 0,
     useBuildHook |-> TRUE,
     printBuildTrace |-> FALSE,
     reservedSize |-> 8 * 1024 * 1024,
     fsyncMetadata |-> TRUE,
     useSQLiteWAL |-> TRUE,
     syncBeforeRegistering |-> FALSE,
     useSubstitutes |-> TRUE,
     useChroot |-> FALSE,
     impersonateLinux26 |-> FALSE,
     keepLog |-> TRUE,
     logCompression |-> IF HAVE_BZLIB_H THEN "COMPRESSION_BZIP2"
                        ELSE "COMPRESSION_GZIP",
     maxLogSize |-> 0,
     cacheFailure |-> FALSE,
     pollInterval |-> 5,
     checkRootReachability |-> FALSE,
     gcKeepOutputs |-> FALSE,
     gcKeepDerivations |-> TRUE,
     autoOptimiseStore |-> FALSE,
     envKeepDerivations |-> FALSE,
     lockCPU |-> (getEnv("NIX_AFFINITY_HACK", <<"1">>) = <<"1">>),
     showTrace |-> FALSE,
     buildUsersGroup |-> EmptyString,
     substituters |-> <<>>]

\* The directory members before processEnvironment() runs.
UnresolvedPaths ==
    [nixStore |-> EmptyString, nixDataDir |-> EmptyString,
     nixLogDir |-> EmptyString, nixStateDir |-> EmptyString,
     nixDBPath |-> EmptyString, nixConfDir |-> EmptyString,
     nixLibexecDir |-> EmptyString, nixBinDir |-> EmptyString,
     nixDaemonSocketFile |-> EmptyString]

\* The record of a call: the operation, its arguments, the error it threw
\* ("none" when it returned) and what it returned.
Call(op, name, arg, err, ret) ==
    [op |-> op, name |-> name, arg |-> arg, err |-> err, ret |-> ret]

-----------------------------------------------------------------------------
(* Settings::processEnvironment *)

processEnvironment ==
    LET stateDir == canonPath(getEnv("NIX_STATE_DIR", NIX_STATE_DIR))
    IN  [nixStore |-> canonPath(getEnv("NIX_STORE_DIR",
                                       getEnv("NIX_STORE", NIX_STORE_DIR))),
         nixDataDir |-> canonPath(getEnv("NIX_DATA_DIR", NIX_DATA_DIR)),
         nixLogDir |-> canonPath(getEnv("NIX_LOG_DIR", NIX_LOG_DIR)),
         nixStateDir |-> stateDir,
         nixDBPath |-> getEnv("NIX_DB_DIR", stateDir \o <<"/", "d", "b">>),
         nixConfDir |-> canonPath(getEnv("GUIX_CONFIGURATION_DIRECTORY",
                                         GUIX_CONFIGURATION_DIRECTORY)),
         nixLibexecDir |-> canonPath(getEnv("NIX_LIBEXEC_DIR", NIX_LIBEXEC_DIR)),
         nixBinDir |-> canonPath(getEnv("NIX_BIN_DIR", NIX_BIN_DIR)),
         nixDaemonSocketFile |-> canonPath(stateDir \o DEFAULT_SOCKET_PATH)]

ProcessEnvironment ==
    /\ paths' = processEnvironment
    /\ last' = Call("processEnvironment", EmptyString, EmptyString, "none", "void")
    /\ UNCHANGED <<settings, overrides, fields, environ, setHistory>>

-----------------------------------------------------------------------------
(* Settings::set *)

\* Mutant: the write reaches the override log only.
set_settings_dropped(name, value) == settings

set_settings(name, value) == MapPut(settings, name, value)
\* Mutant: insert() instead of operator[]: an existing entry is kept.
set_overrides_keep_first(name, value) ==
    IF name \in DOMAIN overrides THEN overrides ELSE MapPut(overrides, name, value)

set_overrides(name, value) == MapPut(overrides, name, value)

Set(name, value) ==
    /\ settings' = set_settings(name, value)
    /\ overrides' = set_overrides(name, value)
    /\ last' = Call("set", name, value, "none", "void")
    /\ setHistory' = [n \in DOMAIN setHistory \cup {name} |->
                         IF n = name THEN value ELSE setHistory[n]]
    /\ UNCHANGED <<fields, paths, environ>>

-----------------------------------------------------------------------------
(* Settings::_get: each overload yields the set of its outcomes, an outcome *)
(* being the error thrown ("none": it returned) and what res then holds.    *)

Outcome(err, res) == [err |-> err, res |-> res]

_get_string(res, name) ==
    IF name \notin DOMAIN settings THEN {Outcome("none", res)}
    ELSE {Outcome("none", settings[name])}

\* Mutant: a malformed boolean is ignored instead of thrown.
_get_bool_lenient(res, name) ==
    IF name \notin DOMAIN settings THEN {Outcome("none", res)}
    ELSE IF settings[name] = STR_true THEN {Outcome("none", TRUE)}
    ELSE IF settings[name] = STR_false THEN {Outcome("none", FALSE)}
    ELSE {Outcome("none", res)}

_get_bool(res, name) ==
    IF name \notin DOMAIN settings THEN {Outcome("none", res)}
    ELSE IF settings[name] = STR_true THEN {Outcome("none", TRUE)}
    ELSE IF settings[name] = STR_false THEN {Outcome("none", FALSE)}
    ELSE {Outcome("InvalidBoolean", res)}

\* Mutant: the parsed value goes to a temporary and is never assigned.
_get_int_discard(res, name) ==
    IF name \notin DOMAIN settings THEN {Outcome("none", res)}
    ELSE {Outcome(IF o.ok THEN "none" ELSE "InvalidInteger", res) :
              o \in string2Int(settings[name], res)}

\* template<class N> _get: N is taken as int for every integer member (the
\* members' declarations are in globals.hh).
_get_int(res, name) ==
    IF name \notin DOMAIN settings THEN {Outcome("none", res)}
    ELSE {Outcome(IF o.ok THEN "none" ELSE "InvalidInteger", o.n) :
              o \in string2Int(settings[name], res)}

-----------------------------------------------------------------------------
(* Settings::get: the four overloads; each yields [err, ret] results *)

Result(err, ret) == [err |-> err, ret |-> ret]

\* Mutant: an absent name reads as the empty string.
get_string_absent_empty(name, def) ==
    IF name \notin DOMAIN settings THEN {Result("none", EmptyString)}
    ELSE {Result("none", settings[name])}

get_string(name, def) ==
    IF name \notin DOMAIN settings THEN {Result("none", def)}
    ELSE {Result("none", settings[name])}

get_Strings(name, def) ==
    IF name \notin DOMAIN settings THEN {Result("none", def)}
    ELSE {Result("none", tokenizeString(settings[name], Whitespace))}

get_bool(name, def) ==
    {IF o.err = "none" THEN Result("none", o.res) ELSE Result(o.err, "exception") :
         o \in _get_bool(def, name)}

get_int(name, def) ==
    {IF o.err = "none" THEN Result("none", o.res) ELSE Result(o.err, "exception") :
         o \in _get_int(def, name)}

\* Mutant: the lookup is settings[name] instead of settings.find(name), which
\* inserts an empty entry for an absent name.
Returns_inserting(op, name, def, results) ==
    /\ \E r \in results : last' = Call(op, name, def, r.err, r.ret)
    /\ settings' = IF name \in DOMAIN settings THEN settings
                   ELSE MapPut(settings, name, EmptyString)
    /\ UNCHANGED <<overrides, fields, paths, environ, setHistory>>

Returns(op, name, def, results) ==
    /\ \E r \in results : last' = Call(op, name, def, r.err, r.ret)
    /\ UNCHANGED <<settings, overrides, fields, paths, environ, setHistory>>

GetString(name, def) == Returns("get_string", name, def, get_string(name, def))
GetStrings(name, def) == Returns("get_Strings", name, def, get_Strings(name, def))
GetBool(name, def) == Returns("get_bool", name, def, get_bool(name, def))
GetInt(name, def) == Returns("get_int", name, def, get_int(name, def))

-----------------------------------------------------------------------------
(* Settings::update *)

\* The _get overload the compiler selects for a member of FieldList.
_get(type, res, name) ==
    CASE type = "bool" -> _get_bool(res, name)
      [] type = "int" -> _get_int(res, name)
      [] type = "string" -> _get_string(res, name)

\* Mutant: a throw restores the members the walk had already assigned.
RECURSIVE update_walk_rollback(_, _)
update_walk_rollback(i, flds) ==
    IF i > Len(FieldList) THEN {[err |-> "none", fields |-> flds]}
    ELSE LET e == FieldList[i]
         IN  UNION {IF o.err = "none"
                    THEN update_walk_rollback(i + 1,
                                              [flds EXCEPT ![e.field] = o.res])
                    ELSE {[err |-> o.err, fields |-> fields]} :
                        o \in _get(e.type, flds[e.field], e.key)}

\* The _get calls from the i-th on, in order, on the members flds: the set
\* of [err, fields] the walk can end with.  A throw ends the walk where it
\* is; the member it was given by reference holds what _get left in it.
RECURSIVE update_walk(_, _)
update_walk(i, flds) ==
    IF i > Len(FieldList) THEN {[err |-> "none", fields |-> flds]}
    ELSE LET e == FieldList[i]
         IN  UNION {IF o.err = "none"
                    THEN update_walk(i + 1, [flds EXCEPT ![e.field] = o.res])
                    ELSE {[err |-> o.err,
                           fields |-> [flds EXCEPT ![e.field] = o.res]]} :
                        o \in _get(e.type, flds[e.field], e.key)}

\* Mutant: the clear() is missing.
default_substituters_no_clear(old) ==
    Append(Append(old, paths.nixLibexecDir \o SUBSTITUTER_manifests),
           paths.nixLibexecDir \o SUBSTITUTER_binary_cache)

\* substituters.clear() and the two push_back calls.
default_substituters(old) ==
    LET cleared == <<>>
    IN  Append(Append(cleared, paths.nixLibexecDir \o SUBSTITUTER_manifests),
               paths.nixLibexecDir \o SUBSTITUTER_binary_cache)

update_substituters(old) ==
    LET subs == getEnv("NIX_SUBSTITUTERS", STR_default)
    IN  IF subs = STR_default THEN default_substituters(old)
        ELSE tokenizeString(subs, {":"})

update ==
    {IF o.err = "none"
     THEN [err |-> "none",
           fields |-> [o.fields EXCEPT
                          !.substituters = update_substituters(@)]]
     ELSE o : o \in update_walk(1, fields)}

Update ==
    /\ \E o \in update :
          /\ fields' = o.fields
          /\ last' = Call("update", EmptyString, EmptyString, o.err,
                          IF o.err = "none" THEN "void" ELSE "exception")
    /\ UNCHANGED <<settings, overrides, paths, environ, setHistory>>

-----------------------------------------------------------------------------
(* Settings::pack *)

\* Mutant: only the name is tested.
pack_illegal_names_only(name, value) ==
    \/ Contains(name, LF)
    \/ Contains(name, "=")

\* The test of one entry: does it make pack() throw?
pack_illegal(name, value) ==
    \/ Contains(name, LF)
    \/ Contains(name, "=")
    \/ Contains(value, LF)

\* Mutant: the line terminator after the value is missing.
RECURSIVE pack_loop_no_terminator(_, _)
pack_loop_no_terminator(keys, s) ==
    IF keys = <<>> THEN Result("none", s)
    ELSE LET name == Head(keys)
             value == settings[name]
         IN  IF pack_illegal(name, value)
             THEN Result("IllegalSetting", "exception")
             ELSE pack_loop_no_terminator(Tail(keys),
                                          s \o name \o <<"=">> \o value)

RECURSIVE pack_loop(_, _)
pack_loop(keys, s) ==
    IF keys = <<>> THEN Result("none", s)
    ELSE LET name == Head(keys)
             value == settings[name]
         IN  IF pack_illegal(name, value)
             THEN Result("IllegalSetting", "exception")
             ELSE pack_loop(Tail(keys), s \o name \o <<"=">> \o value \o <<LF>>)

pack == pack_loop(SortedKeys(DOMAIN settings), EmptyString)

Pack ==
    /\ last' = Call("pack", EmptyString, EmptyString, pack.err, pack.ret)
    /\ UNCHANGED <<settings, overrides, fields, paths, environ, setHistory>>

-----------------------------------------------------------------------------
(* Settings::getOverrides *)

getOverrides == overrides

GetOverrides ==
    /\ last' = Call("getOverrides", EmptyString, EmptyString, "none", getOverrides)
    /\ UNCHANGED <<settings, overrides, fields, paths, environ, setHistory>>

-----------------------------------------------------------------------------
(* Inputs *)

NoEnvironment == [v \in {} |-> EmptyString]

\* The environments a run starts in: nothing set; the selector set to the
\* literal "default" and the libexec directory set; the selector set to a
\* list with empty components and the affinity toggle off; the selector
\* set to the empty string.
Environments ==
    {NoEnvironment,
     [v \in {"NIX_SUBSTITUTERS", "NIX_LIBEXEC_DIR"} |->
         CASE v = "NIX_SUBSTITUTERS" -> STR_default
           [] v = "NIX_LIBEXEC_DIR" -> <<"/", "x", "/", "/", "y", "/">>],
     [v \in {"NIX_SUBSTITUTERS", "NIX_AFFINITY_HACK"} |->
         CASE v = "NIX_SUBSTITUTERS" -> <<":", "a", ":", ":", "b", "c", ":">>
           [] v = "NIX_AFFINITY_HACK" -> <<"0">>],
     [v \in {"NIX_SUBSTITUTERS"} |-> EmptyString]}

Init ==
    /\ environ \in Environments
    /\ settings = EmptyMap
    /\ overrides = EmptyMap
    /\ fields = SettingsConstructor
    /\ paths = UnresolvedPaths
    /\ last = Call("Settings", EmptyString, EmptyString, "none", "void")
    /\ setHistory = EmptyMap

STR_4 == <<"4">>
\* Neither "true"/"false" nor an integer, and it holds a line terminator.
STR_oops == <<"o", "o", "p", "s", LF>>

\* Names and values written in the full specification: the first two keys
\* of update()'s list (a boolean and an integer member) and a later one.
Names == {KEY_build_fallback, KEY_build_max_jobs, KEY_gc_keep_outputs}
Values == {STR_true, STR_4, STR_oops}

\* The name the typed reads of the full specification ask for: with the
\* values above it is absent, well-formed or malformed for each overload.
ReadNames == {KEY_build_max_jobs}

Next ==
    \/ \E name \in Names, value \in Values : Set(name, value)
    \/ \E name \in ReadNames : GetString(name, STR_default)
    \/ \E name \in ReadNames : GetStrings(name, <<STR_default>>)
    \/ \E name \in ReadNames : GetBool(name, FALSE)
    \/ \E name \in ReadNames : GetInt(name, 0)
    \/ Update
    \/ Pack
    \/ GetOverrides
    \/ ProcessEnvironment

Spec == Init /\ [][Next]_vars

-----------------------------------------------------------------------------
(* The typed reads on their own: set() and the four get() overloads *)

\* The integers written and read back: the two ends of the int width and
\* every integer of magnitude up to MaxSmallInt (one and two digits, both
\* signs).
MaxSmallInt == 12
SampleInts == {IntMin, IntMax} \cup (-MaxSmallInt..MaxSmallInt)

GetNames == {<<"a">>, <<"b">>}
GetValues ==
    {STR_true, STR_false, <<"T", "r", "u", "e">>, <<"1">>, EmptyString,
     <<"a", " ", "b">>} \cup {IntToString(n) : n \in SampleInts}

StringDefaults == {EmptyString, STR_default}
StringsDefaults == {<<>>, <<STR_default>>}
IntDefaults == {0, -5}

InitGet == Init /\ environ = NoEnvironment

NextGet ==
    \/ \E name \in GetNames, value \in GetValues : Set(name, value)
    \/ \E name \in GetNames, def \in StringDefaults : GetString(name, def)
    \/ \E name \in GetNames, def \in StringsDefaults : GetStrings(name, def)
    \/ \E name \in GetNames, def \in BOOLEAN : GetBool(name, def)
    \/ \E name \in GetNames, def \in IntDefaults : GetInt(name, def)

SpecGet == InitGet /\ [][NextGet]_vars

IsGet == last.op \in {"get_string", "get_Strings", "get_bool", "get_int"}

\* C1: whenever the name a get() overload was asked for is not a key of the
\* backing store, the call threw nothing and returned exactly the default
\* it was given, for each of the four overloads.
C1_AbsentReturnsDefault ==
    (IsGet /\ last.name \notin DOMAIN settings)
        => (last.err = "none" /\ last.ret = last.arg)

C1_Witness ==
    /\ last.op = "get_int"
    /\ settings # EmptyMap
    /\ last.name \notin DOMAIN settings
    /\ last.arg = -5
    /\ last.ret = -5

\* C2: for a name present in the backing store the boolean get() returns
\* true on exactly "true", false on exactly "false", and throws
\* InvalidBoolean on every other raw value, whatever the default was.
C2_BoolCoercion ==
    (last.op = "get_bool" /\ last.name \in DOMAIN settings)
        => LET raw == settings[last.name]
           IN  /\ raw = STR_true => (last.err = "none" /\ last.ret = TRUE)
               /\ raw = STR_false => (last.err = "none" /\ last.ret = FALSE)
               /\ raw \notin {STR_true, STR_false} => last.err = "InvalidBoolean"

C2_Witness ==
    /\ last.op = "get_bool"
    /\ last.name \in DOMAIN settings
    /\ settings[last.name] = <<"T", "r", "u", "e">>
    /\ last.arg = TRUE
    /\ last.err = "InvalidBoolean"

\* C3: round trip.  When the most recent set() on a name wrote str(n), n of
\* the int width, the integer get(name, 0) returns n, whatever came before.
C3_IntRoundTrip ==
    (last.op = "get_int" /\ last.name \in DOMAIN setHistory)
        => \A n \in SampleInts :
              (last.arg = 0 /\ setHistory[last.name] = IntToString(n))
                  => (last.err = "none" /\ last.ret = n)

C3_Witness ==
    /\ last.op = "get_int"
    /\ last.arg = 0
    /\ last.name \in DOMAIN setHistory
    /\ setHistory[last.name] = IntToString(IntMin)
    /\ last.err = "none"
    /\ last.ret = IntMin

-----------------------------------------------------------------------------
(* pack() on its own: set() with reserved characters, then pack() *)

PackNames == {<<"a">>, <<"k">>, <<"j", "=">>, <<"n", LF>>}
PackValues == {EmptyString, <<"v">>, <<"v", "=", "w">>, <<"v", LF>>}

NextPack ==
    \/ \E name \in PackNames, value \in PackValues : Set(name, value)
    \/ Pack

SpecPack == InitGet /\ [][NextPack]_vars

HasReserved(s) == Contains(s, LF) \/ Contains(s, "=")

\* The text before the first line terminator, and the text after it.
RECURSIVE SplitLines(_, _)
SplitLines(blob, line) ==
    IF blob = <<>> THEN IF line = <<>> THEN <<>> ELSE <<line>>
    ELSE IF Head(blob) = LF THEN <<line>> \o SplitLines(Tail(blob), <<>>)
    ELSE SplitLines(Tail(blob), Append(line, Head(blob)))

\* A record split on its '=': the name before it, the value after it.
RecordName(rec) ==
    LET i == CHOOSE j \in 1..Len(rec) :
                 rec[j] = "=" /\ \A m \in 1..j - 1 : rec[m] # "="
    IN  SubSeq(rec, 1, i - 1)
RecordValue(rec) == SubSeq(rec, Len(RecordName(rec)) + 2, Len(rec))

\* Re-parsing a blob into a map.
ParseBlob(blob) ==
    LET recs == SplitLines(blob, <<>>)
    IN  [name \in {RecordName(recs[i]) : i \in 1..Len(recs)} |->
            LET i == CHOOSE j \in 1..Len(recs) : RecordName(recs[j]) = name
            IN  RecordValue(recs[i])]

\* C4 as stated: pack() throws IllegalSetting whenever a name or a value of
\* the backing store holds a line terminator or '='.
C4_Original ==
    (last.op = "pack"
     /\ \E k \in DOMAIN settings : HasReserved(k) \/ HasReserved(settings[k]))
        => (last.err = "IllegalSetting" /\ last.ret = "exception")

\* C4 as amended: pack() throws IllegalSetting, and returns no output,
\* whenever a name holds a line terminator or '=' or a value holds a line
\* terminator; an entry whose value alone holds '=' does not make it throw.
C4_IllegalSetting ==
    last.op = "pack"
        => /\ (\E k \in DOMAIN settings :
                   HasReserved(k) \/ Contains(settings[k], LF))
                 => (last.err = "IllegalSetting" /\ last.ret = "exception")
           /\ (\A k \in DOMAIN settings :
                   ~HasReserved(k) /\ ~Contains(settings[k], LF))
                 => last.err = "none"

C4_Witness ==
    /\ last.op = "pack"
    /\ last.err = "IllegalSetting"
    /\ \A k \in DOMAIN settings : ~HasReserved(k) /\ ~Contains(settings[k], "=")
    /\ \E k \in DOMAIN settings : Contains(settings[k], LF)

\* C5: when no name and no value holds a line terminator or '=', pack()
\* succeeds and its output is one name=value record plus a line terminator
\* per entry: re-parsed, it is the backing store, with no record more or less.
C5_PackRoundTrip ==
    (last.op = "pack"
     /\ \A k \in DOMAIN settings : ~HasReserved(k) /\ ~HasReserved(settings[k]))
        => /\ last.err = "none"
           /\ (last.ret = <<>> \/ last.ret[Len(last.ret)] = LF)
           /\ Len(SplitLines(last.ret, <<>>)) = Cardinality(DOMAIN settings)
           /\ \A i \in 1..Len(SplitLines(last.ret, <<>>)) :
                  Contains(SplitLines(last.ret, <<>>)[i], "=")
           /\ ParseBlob(last.ret) = settings

C5_Witness ==
    /\ last.op = "pack"
    /\ DOMAIN settings = {<<"a">>, <<"k">>}
    /\ settings[<<"a">>] = EmptyString
    /\ settings[<<"k">>] = <<"v">>
    /\ last.ret = <<"a", "=", LF, "k", "=", "v", LF>>

-----------------------------------------------------------------------------
(* The whole registry: claims checked under Spec *)

\* C6: getOverrides() returns exactly the names passed to set() since
\* construction, each with the value of the most recent set() on it; a
\* name update() only read is not in it.
C6_OverridesAreTheSets ==
    last.op = "getOverrides"
        => /\ DOMAIN last.ret = DOMAIN setHistory
           /\ \A name \in DOMAIN last.ret : last.ret[name] = setHistory[name]

\* update() has run (substituters is filled in), two names were set and the
\* key update() read first was never set.
C6_Witness ==
    /\ last.op = "getOverrides"
    /\ fields.substituters # <<>>
    /\ DOMAIN last.ret = {KEY_build_max_jobs, KEY_gc_keep_outputs}
    /\ last.ret[KEY_build_max_jobs] = STR_4

\* The coercion rules of the typed reads, stated on the raw string.
WellFormed(type, raw) ==
    CASE type = "bool" -> raw \in {STR_true, STR_false}
      [] type = "int" -> ParseInt(raw).ok
      [] type = "string" -> TRUE

Coerced(type, raw) ==
    CASE type = "bool" -> (raw = STR_true)
      [] type = "int" -> ParseInt(raw).n
      [] type = "string" -> raw

Present(i) == FieldList[i].key \in DOMAIN settings
Malformed(i) ==
    Present(i) /\ ~WellFormed(FieldList[i].type, settings[FieldList[i].key])
HasMalformed == \E i \in 1..Len(FieldList) : Malformed(i)
FirstMalformed ==
    CHOOSE i \in 1..Len(FieldList) :
        Malformed(i) /\ \A j \in 1..i - 1 : ~Malformed(j)
ErrorOf(type) == IF type = "int" THEN "InvalidInteger" ELSE "InvalidBoolean"

\* What an update() that finds a malformed value does to the members before
\* the failing one, and its error.
FailedUpdatePrefix ==
    /\ last'.err = ErrorOf(FieldList[FirstMalformed].type)
    /\ \A i \in 1..FirstMalformed - 1 :
          fields'[FieldList[i].field] =
              IF Present(i)
              THEN Coerced(FieldList[i].type, settings[FieldList[i].key])
              ELSE fields[FieldList[i].field]

\* The members after the i-th of the list, and substituters, are untouched.
UnchangedAfter(i) ==
    /\ \A j \in i + 1..Len(FieldList) :
          fields'[FieldList[j].field] = fields[FieldList[j].field]
    /\ fields'.substituters = fields.substituters

\* C7 as stated: a failing update() has updated the members before the
\* first malformed key, and the failing member and every one after it,
\* substituters included, keep the values they had before the call.
C7_Original ==
    [][(Update /\ HasMalformed)
          => /\ FailedUpdatePrefix
             /\ UnchangedAfter(FirstMalformed - 1)]_vars

\* C7 as amended: as stated, except that a failing integer member need not
\* keep its value (it is handed to the parser by reference); a failing
\* boolean member and every member after the failing one keep theirs.
C7_PartialUpdate ==
    [][(Update /\ HasMalformed)
          => /\ FailedUpdatePrefix
             /\ UnchangedAfter(FirstMalformed)
             /\ FieldList[FirstMalformed].type = "bool"
                   => UnchangedAfter(FirstMalformed - 1)]_vars

\* build-fallback was applied, build-max-jobs failed, and gc-keep-outputs,
\* later in the list, was not applied.
C7_Witness ==
    /\ last.op = "update"
    /\ last.err = "InvalidInteger"
    /\ KEY_build_fallback \in DOMAIN settings
    /\ settings[KEY_build_fallback] = STR_true
    /\ fields.tryFallback = TRUE
    /\ KEY_gc_keep_outputs \in DOMAIN settings
    /\ settings[KEY_gc_keep_outputs] = STR_true
    /\ fields.gcKeepOutputs = FALSE
    /\ fields.substituters = <<>>

\* A string split on ':' into its non-empty components, in order.
RECURSIVE SplitColon(_, _)
SplitColon(s, token) ==
    IF s = <<>> THEN IF token = <<>> THEN <<>> ELSE <<token>>
    ELSE IF Head(s) = ":"
    THEN (IF token = <<>> THEN <<>> ELSE <<token>>) \o SplitColon(Tail(s), <<>>)
    ELSE SplitColon(Tail(s), Append(token, Head(s)))

SubstitutersUnsetOrDefault ==
    \/ "NIX_SUBSTITUTERS" \notin DOMAIN environ
    \/ environ["NIX_SUBSTITUTERS"] = STR_default

\* C8: after an update() that completed, substituters is exactly the two
\* fixed entries under the libexec directory when NIX_SUBSTITUTERS is unset
\* or "default", and exactly the variable's value split on ':' otherwise,
\* whatever it held before and however often update() ran.
C8_Substituters ==
    (last.op = "update" /\ last.err = "none")
        => fields.substituters =
              IF SubstitutersUnsetOrDefault
              THEN <<paths.nixLibexecDir \o SUBSTITUTER_manifests,
                     paths.nixLibexecDir \o SUBSTITUTER_binary_cache>>
              ELSE SplitColon(environ["NIX_SUBSTITUTERS"], <<>>)

C8_Witness ==
    /\ last.op = "update"
    /\ last.err = "none"
    /\ settings # EmptyMap
    /\ "NIX_SUBSTITUTERS" \in DOMAIN environ
    /\ environ["NIX_SUBSTITUTERS"] = STR_default
    /\ paths.nixLibexecDir = <<"/", "x", "/", "y">>
    /\ Len(fields.substituters) = Cardinality({"manifests", "binary-cache"})
    /\ fields.substituters[1] = <<"/", "x", "/", "y">> \o SUBSTITUTER_manifests

\* C9: a typed member changes only in update(); after an update() that
\* completed, each member of the list whose key is present holds the
\* coercion of the key's raw value and each member whose key is absent
\* holds what it held before; set() changes no typed member.
C9_FieldsFollowKeys ==
    [][/\ last'.op # "update" => fields' = fields
       /\ (last'.op = "update" /\ last'.err = "none")
             => \A i \in 1..Len(FieldList) :
                   fields'[FieldList[i].field] =
                       IF Present(i)
                       THEN Coerced(FieldList[i].type, settings[FieldList[i].key])
                       ELSE fields[FieldList[i].field]]_vars

C9_Witness ==
    /\ last.op = "update"
    /\ last.err = "none"
    /\ DOMAIN settings = {KEY_build_fallback, KEY_build_max_jobs}
    /\ fields.tryFallback = TRUE
    /\ fields.maxBuildJobs = ParseInt(STR_4).n
    /\ fields.gcKeepOutputs = SettingsConstructor.gcKeepOutputs

SameElsewhere(m1, m2, name) ==
    /\ DOMAIN m1 \ {name} = DOMAIN m2 \ {name}
    /\ \A k \in DOMAIN m1 \ {name} : m1[k] = m2[k]

\* C10: only set() changes the backing store or the override log, and it
\* changes only the entry of its name; every get() overload, update(),
\* pack() and getOverrides() leaves both maps as they were, whether the
\* call returns or throws.
C10_OnlySetWrites ==
    [][/\ last'.op # "set" => (settings' = settings /\ overrides' = overrides)
       /\ last'.op = "set"
             => /\ SameElsewhere(settings', settings, last'.name)
                /\ SameElsewhere(overrides', overrides, last'.name)]_vars

\* pack() has just thrown on a store of three entries.
C10_Witness ==
    /\ last.op = "pack"
    /\ last.err = "IllegalSetting"
    /\ DOMAIN settings = Names
    /\ overrides = settings

====
